---- MODULE Spec2Model ----
(***************************************************************************)
(* Model of the Augment class of chatl (javascript/src/augment.js).        *)
(*                                                                         *)
(* Strings are sequences of one-character strings, so that trimLeft,       *)
(* trimRight, value[0] and concatenation are computed character by         *)
(* character.  Objects used as maps are functions; the one object whose    *)
(* key order is observable (synonymsData) is a sequence of entries kept in *)
(* insertion order.                                                        *)
(***************************************************************************)
EXTENDS Integers, Sequences, FiniteSets, TLC

VARIABLES intents, entities, synonyms, synonymsValues, entitiesValues,
          call, returned

vars == <<intents, entities, synonyms, synonymsValues, entitiesValues,
          call, returned>>

(***************************************************************************)
(* Bounds                                                                  *)
(***************************************************************************)
\* Number of parts of a sentence that is alone in its intent.
MaxParts == 3
\* Total number of parts of an intent with several sentences.
MaxSharedParts == 2
\* Number of parts of the sentence of a single-sentence intent in SpecDeep.
MaxDeepParts == 4
\* Number of sentences of the intent.
MaxSentences == 2
\* Number of getIntents() calls whose results are recorded.
MaxCalls == 2

(***************************************************************************)
(* String literals                                                         *)
(***************************************************************************)
SP == " "
sHello == <<"H", "e", "l", "l", "o", SP>>
sThere == <<SP, "t", "h", "e", "r", "e">>
sSpace == <<SP>>
sAlice == <<"A", "l", "i", "c", "e">>
sBob == <<"B", "o", "b">>
sNYC == <<"N", "Y", "C">>
sName == <<"n", "a", "m", "e">>
sCity == <<"c", "i", "t", "y">>
sGreet == <<"g", "r", "e", "e", "t">>

\* JavaScript's undefined.
undefined == <<"undefined">>
\* The empty object {}.
EmptyObject == <<>>

(***************************************************************************)
(* String functions                                                        *)
(***************************************************************************)
\* Characters String.prototype.trimLeft / trimRight remove.
IsWhiteSpace(ch) == ch \in {SP, "\t", "\n"}

RECURSIVE trimLeft(_)
trimLeft(s) ==
  IF s = <<>> THEN <<>>
  ELSE IF IsWhiteSpace(Head(s)) THEN trimLeft(Tail(s))
  ELSE s

RECURSIVE trimRight(_)
trimRight(s) ==
  IF s = <<>> THEN <<>>
  ELSE IF IsWhiteSpace(s[Len(s)]) THEN trimRight(SubSeq(s, 1, Len(s) - 1))
  ELSE s

\* s[0] === ' ': s[0] is undefined for the empty string.
startsWithSpace(s) == s # <<>> /\ s[1] = SP

(***************************************************************************)
(* Collaborators: utils.isSynonym, utils.permutate                         *)
(***************************************************************************)
isSynonym(c) == c.type = "synonym"

\* Cartesian product of the ordered domains in odometer order: the first
\* domain varies slowest, the last cycles fastest.
RECURSIVE permutate(_)
permutate(data) ==
  IF data = <<>> THEN << <<>> >>
  ELSE LET values == data[1].values
           rest == permutate(Tail(data))
           RECURSIVE over(_)
           over(i) ==
             IF i > Len(values) THEN <<>>
             ELSE [j \in 1..Len(rest) |-> <<values[i]>> \o rest[j]] \o over(i + 1)
       IN over(1)

(***************************************************************************)
(* Constructor                                                             *)
(***************************************************************************)
\* parsedData.<field> || {}
fieldOrEmpty(parsedData, field) ==
  IF field \in DOMAIN parsedData THEN parsedData[field] ELSE EmptyObject

\* fp.map(fp.pipe(fp.prop('data'), fp.map(fp.prop('value'))))(this.synonyms)
flattenSynonyms(syns) ==
  [e \in DOMAIN syns |->
     [i \in 1..Len(syns[e].data) |-> syns[e].data[i].value]]

\* fp.map(fp.instantiate(EntityValueProvider, injected))(this.entities);
\* one instance per entity, identified by the entity it was built for.
instantiateProviders(ents, injected) ==
  [e \in DOMAIN ents |->
     [instance |-> e, definition |-> ents[e], synonyms |-> injected]]

(***************************************************************************)
(* getEntity, getSynonyms                                                  *)
(***************************************************************************)
NotFoundPrefix ==
  <<"C", "o", "u", "l", "d", SP, "n", "o", "t", SP, "f", "i", "n", "d", SP,
    "a", "n", SP, "e", "n", "t", "i", "t", "y", SP, "w", "i", "t", "h", SP,
    "t", "h", "e", SP, "n", "a", "m", "e", ":", SP>>

\* Variant of getEntity that returns undefined instead of throwing.
getEntity_noThrow(name) ==
  IF name \notin DOMAIN entitiesValues
    THEN [outcome |-> "return", value |-> undefined]
    ELSE [outcome |-> "return", value |-> entitiesValues[name]]

getEntity(name) ==
  IF name \notin DOMAIN entitiesValues
    THEN [outcome |-> "throw", value |-> NotFoundPrefix \o name]
    ELSE [outcome |-> "return", value |-> entitiesValues[name]]

getSynonyms(entity) ==
  IF entity \in DOMAIN synonymsValues THEN synonymsValues[entity] ELSE <<>>

(***************************************************************************)
(* getIntents                                                              *)
(***************************************************************************)
sentenceSynonymsOf(sentence) == SelectSeq(sentence, isSynonym)

\* fp.append({[key]: values})(p) on an object: an existing key keeps its
\* position and takes the new value, a new key goes last.
appendEntry(p, key, values) ==
  IF \E i \in 1..Len(p) : p[i].key = key
    THEN [i \in 1..Len(p) |->
            IF p[i].key = key THEN [key |-> key, values |-> values] ELSE p[i]]
    ELSE Append(p, [key |-> key, values |-> values])

\* Variant of domainOf that puts the empty entry after the synonym values.
domainOf_emptyLast(c) ==
  getSynonyms(c.value) \o (IF c.optional THEN << <<>> >> ELSE <<>>)

\* (c.optional ? [''] : []).concat(this.getSynonyms(c.value))
domainOf(c) == (IF c.optional THEN << <<>> >> ELSE <<>>) \o getSynonyms(c.value)

RECURSIVE synonymsDataFrom(_, _)
synonymsDataFrom(p, cs) ==
  IF cs = <<>> THEN p
  ELSE synonymsDataFrom(appendEntry(p, cs[1].value, domainOf(cs[1])), Tail(cs))

synonymsData(sentenceSynonyms) == synonymsDataFrom(<<>>, sentenceSynonyms)

\* permutation[idx]: undefined past the end of the array.
permutationAt(permutation, idx) ==
  IF idx + 1 \in 1..Len(permutation) THEN permutation[idx + 1] ELSE undefined

\* if (value): the empty string and undefined are falsy.
truthy(value) == value # <<>> /\ value # undefined

RECURSIVE partsFrom(_, _, _, _)
partsFrom(p, idx, cs, permutation) ==
  IF cs = <<>> THEN p
  ELSE LET c == cs[1] IN
       IF ~isSynonym(c)
         THEN partsFrom(Append(p, c), idx, Tail(cs), permutation)
         ELSE LET value == permutationAt(permutation, idx) IN
              IF truthy(value)
                THEN partsFrom(Append(p, [type |-> "text", value |-> value]),
                               idx + 1, Tail(cs), permutation)
                ELSE partsFrom(p, idx + 1, Tail(cs), permutation)

\* Variant of parts that prepends to the accumulator instead of appending.
parts_prepend(sentence, permutation) ==
  LET ps == partsFrom(<<>>, 0, sentence, permutation)
  IN [i \in 1..Len(ps) |-> ps[Len(ps) + 1 - i]]

parts(sentence, permutation) == partsFrom(<<>>, 0, sentence, permutation)

\* The value of part i (1-based) of ps after the trimming of lines 101-108.
strippedValue(ps, i) ==
  LET v0 == ps[i].value
      v1 == IF i = 1 THEN trimLeft(v0) ELSE v0
  IN IF i = Len(ps) \/ startsWithSpace(ps[i + 1].value) THEN trimRight(v1) ELSE v1

RECURSIVE strippedFrom(_, _, _)
strippedFrom(f, i, ps) ==
  IF i > Len(ps) THEN f
  ELSE LET v == strippedValue(ps, i) IN
       IF v = <<>> THEN strippedFrom(f, i + 1, ps)
       ELSE strippedFrom(Append(f, [ps[i] EXCEPT !.value = v]), i + 1, ps)

strippedParts(ps) == strippedFrom(<<>>, 1, ps)

\* Variant of expand without the early return for synonym-free sentences.
expand_noEarlyReturn(sentence) ==
  LET perms == permutate(synonymsData(sentenceSynonymsOf(sentence)))
  IN [k \in 1..Len(perms) |-> strippedParts(parts(sentence, perms[k]))]

\* What one sentence adds to the accumulator of the reduce over intentData.data.
expand(sentence) ==
  LET sentenceSynonyms == sentenceSynonymsOf(sentence) IN
  IF Len(sentenceSynonyms) = 0 THEN <<sentence>>
  ELSE LET perms == permutate(synonymsData(sentenceSynonyms)) IN
       [k \in 1..Len(perms) |-> strippedParts(parts(sentence, perms[k]))]

RECURSIVE reduceData(_, _)
reduceData(acc, data) ==
  IF data = <<>> THEN acc
  ELSE reduceData(acc \o expand(data[1]), Tail(data))

processIntentData(intentData) ==
  [intentData EXCEPT !.data = reduceData(<<>>, intentData.data)]

getIntents == [n \in DOMAIN intents |-> processIntentData(intents[n])]

\* Variant of intentsAfterGetIntents in which the trimming is done on the
\* stored parts themselves.
intentsAfterGetIntents_inPlace(its) ==
  [n \in DOMAIN its |->
     [its[n] EXCEPT !.data =
        [i \in 1..Len(its[n].data) |->
           LET sentence == its[n].data[i] IN
           IF Len(sentenceSynonymsOf(sentence)) = 0 THEN sentence
           ELSE [j \in 1..Len(sentence) |->
                   IF isSynonym(sentence[j]) THEN sentence[j]
                   ELSE [sentence[j] EXCEPT
                           !.value = trimRight(trimLeft(sentence[j].value))]]]]]

\* The stored intents once getIntents has returned: every part the method
\* writes to is a clone, so the stored tree is the one it started from.
intentsAfterGetIntents(its) == its

(***************************************************************************)
(* Inputs                                                                  *)
(***************************************************************************)
Text(v) == [type |-> "text", value |-> v]
Synonym(e, o) == [type |-> "synonym", value |-> e, optional |-> o]

Texts == {sHello, sThere, sSpace}
EntityNames == {sName, sCity}
Parts == {Text(v) : v \in Texts}
           \cup {Synonym(e, o) : e \in EntityNames, o \in BOOLEAN}

SentencesUpTo(b) == UNION {[1..n -> Parts] : n \in 1..b}

\* Lists of m sentences with at most budget parts in total.
RECURSIVE Datas(_, _)
Datas(m, budget) ==
  IF m = 0 THEN {<<>>}
  ELSE UNION {{<<s>> \o rest : rest \in Datas(m - 1, budget - Len(s))} :
                 s \in SentencesUpTo(budget - (m - 1))}

AllDatas ==
  Datas(1, MaxParts) \cup UNION {Datas(m, MaxSharedParts) : m \in 2..MaxSentences}

rawName == [data |-> <<[value |-> sAlice], [value |-> sBob]>>]
rawCity == [data |-> <<[value |-> sNYC]>>]
cityDefinition == [variant |-> <<>>, data |-> <<[value |-> sNYC]>>]

SynonymsInputs == {(sName :> rawName), (sName :> rawName) @@ (sCity :> rawCity)}

ParsedDatasOver(datas) ==
  {[intents |-> (sGreet :> [data |-> d, props |-> "passthrough"]),
    synonyms |-> s] : d \in datas, s \in SynonymsInputs}

ParsedDatas ==
  ParsedDatasOver(AllDatas)
  \cup
  {[intents |-> (sGreet :> [data |-> d, props |-> "passthrough"]),
    synonyms |-> s,
    entities |-> (sCity :> cityDefinition)] :
      d \in Datas(1, 1), s \in SynonymsInputs}
  \cup
  {[entities |-> (sCity :> cityDefinition)]}

Names == EntityNames

(***************************************************************************)
(* State machine                                                           *)
(***************************************************************************)
NoCall == [op |-> "none"]

\* new Augment(parsedData, useSynonymsInEntityValueProvider)
constructor(parsedData, useSynonymsInEntityValueProvider) ==
  /\ intents = fieldOrEmpty(parsedData, "intents")
  /\ entities = fieldOrEmpty(parsedData, "entities")
  /\ synonyms = fieldOrEmpty(parsedData, "synonyms")
  /\ synonymsValues = flattenSynonyms(fieldOrEmpty(parsedData, "synonyms"))
  /\ entitiesValues =
       instantiateProviders(
         fieldOrEmpty(parsedData, "entities"),
         IF useSynonymsInEntityValueProvider
           THEN flattenSynonyms(fieldOrEmpty(parsedData, "synonyms"))
           ELSE EmptyObject)
  /\ call = NoCall
  /\ returned = <<>>

Init ==
  \E parsedData \in ParsedDatas, useSynonymsInEntityValueProvider \in BOOLEAN :
    constructor(parsedData, useSynonymsInEntityValueProvider)

\* Construction from an intent with one sentence of up to MaxDeepParts parts.
InitDeep ==
  \E parsedData \in ParsedDatasOver(Datas(1, MaxDeepParts)) :
    constructor(parsedData, FALSE)

GetEntity ==
  \E name \in Names :
    /\ call' = [op |-> "getEntity", arg |-> name,
                outcome |-> getEntity(name).outcome,
                value |-> getEntity(name).value]
    /\ UNCHANGED <<intents, entities, synonyms, synonymsValues,
                   entitiesValues, returned>>

GetSynonyms ==
  \E entity \in Names :
    /\ call' = [op |-> "getSynonyms", arg |-> entity,
                outcome |-> "return", value |-> getSynonyms(entity)]
    /\ UNCHANGED <<intents, entities, synonyms, synonymsValues,
                   entitiesValues, returned>>

GetIntents ==
  /\ Len(returned) < MaxCalls
  /\ call' = [op |-> "getIntents", arg |-> undefined,
              outcome |-> "return", value |-> getIntents]
  /\ returned' = Append(returned, getIntents)
  /\ intents' = intentsAfterGetIntents(intents)
  /\ UNCHANGED <<entities, synonyms, synonymsValues, entitiesValues>>

Next == GetEntity \/ GetSynonyms \/ GetIntents

Spec == Init /\ [][Next]_vars

SpecDeep == InitDeep /\ [][Next]_vars

(***************************************************************************)
(* Vocabulary of the properties                                            *)
(***************************************************************************)
hasSynonym(sentence) == \E i \in 1..Len(sentence) : isSynonym(sentence[i])

RECURSIVE Render(_)
Render(sentence) ==
  IF sentence = <<>> THEN <<>> ELSE sentence[1].value \o Render(Tail(sentence))

RenderAll(data) == [k \in 1..Len(data) |-> Render(data[k])]

\* The synonym values configured for an entity, read from the raw input.
Configured(entity) ==
  IF entity \in DOMAIN synonyms
    THEN [i \in 1..Len(synonyms[entity].data) |-> synonyms[entity].data[i].value]
    ELSE <<>>

\* The domain of one occurrence of a synonym part.
OccurrenceDomain(c) ==
  (IF c.optional THEN << <<>> >> ELSE <<>>) \o Configured(c.value)

DomainSize(c) == (IF c.optional THEN 1 ELSE 0) + Len(Configured(c.value))

RECURSIVE DomainProduct(_)
DomainProduct(cs) ==
  IF cs = <<>> THEN 1 ELSE DomainSize(cs[1]) * DomainProduct(Tail(cs))

\* Number of variants a sentence is to contribute.
ExpectedCount(sentence) ==
  IF hasSynonym(sentence) THEN DomainProduct(sentenceSynonymsOf(sentence)) ELSE 1

RECURSIVE SumCounts(_)
SumCounts(data) ==
  IF data = <<>> THEN 0 ELSE ExpectedCount(data[1]) + SumCounts(Tail(data))

\* The tuples of the odometer enumeration over the occurrences of a sentence.
OccurrenceTuples(sentence) ==
  LET cs == sentenceSynonymsOf(sentence)
  IN permutate([i \in 1..Len(cs) |->
                  [key |-> i, values |-> OccurrenceDomain(cs[i])]])

\* The variant of a sentence for one tuple of values, one per occurrence.
VariantFor(sentence, tuple) == strippedParts(parts(sentence, tuple))

ExpectedVariants(sentence) ==
  IF hasSynonym(sentence)
    THEN LET ts == OccurrenceTuples(sentence)
         IN [k \in 1..Len(ts) |-> VariantFor(sentence, ts[k])]
    ELSE <<sentence>>

RECURSIVE ExpectedData(_)
ExpectedData(data) ==
  IF data = <<>> THEN <<>>
  ELSE ExpectedVariants(data[1]) \o ExpectedData(Tail(data))

NoOuterWhiteSpace(text) ==
  text = <<>> \/ (~IsWhiteSpace(text[1]) /\ ~IsWhiteSpace(text[Len(text)]))

Returned(op) == call.op = op /\ call.outcome = "return"

SentencesOf(n) == {intents[n].data[i] : i \in 1..Len(intents[n].data)}

AllSentences == UNION {SentencesOf(n) : n \in DOMAIN intents}

Missing(entity) == entity \notin DOMAIN synonyms

(***************************************************************************)
(* C1                                                                      *)
(***************************************************************************)
\* C1: once getIntents() has returned, every sentence with synonym parts
\* s1..sn, counted per occurrence, has contributed d1 * ... * dn variants,
\* where di = (1 if si is optional, else 0) + the number of synonym values
\* configured for si's entity; so each intent's output holds the sum of these
\* counts over its sentences (1 for a sentence without synonym parts).
C1_VariantCountIsProduct ==
  Returned("getIntents") =>
    \A n \in DOMAIN intents :
      /\ \A s \in SentencesOf(n) :
           hasSynonym(s) => Len(expand(s)) = DomainProduct(sentenceSynonymsOf(s))
      /\ Len(call.value[n].data) = SumCounts(intents[n].data)

(***************************************************************************)
(* C2                                                                      *)
(***************************************************************************)
GreetScenario ==
  /\ intents = (sGreet :> [data |-> << <<Text(sHello), Synonym(sName, TRUE),
                                         Text(sThere)>> >>,
                           props |-> "passthrough"])
  /\ synonyms = (sName :> rawName)

sHelloThere == <<"H", "e", "l", "l", "o">> \o sThere

\* C2 as stated: in the greet scenario getIntents().greet.data renders to
\* "Hello Alice there", "Hello Bob there", "Hello there", in this order.
C2_GreetOmittedLast ==
  (GreetScenario /\ Returned("getIntents")) =>
    RenderAll(call.value[sGreet].data) =
      <<sHello \o sAlice \o sThere, sHello \o sBob \o sThere, sHelloThere>>

\* C2 amended: in the greet scenario getIntents().greet.data is exactly three
\* sentences rendering to "Hello there", "Hello Alice there",
\* "Hello Bob there", in this order: the variant with the placeholder omitted
\* comes first.
C2_GreetOmittedFirst ==
  (GreetScenario /\ Returned("getIntents")) =>
    /\ Len(call.value[sGreet].data) = 3
    /\ RenderAll(call.value[sGreet].data) =
         <<sHelloThere, sHello \o sAlice \o sThere, sHello \o sBob \o sThere>>

C2_Witness == GreetScenario /\ Returned("getIntents")

(***************************************************************************)
(* C3                                                                      *)
(***************************************************************************)
\* C3: for a sentence with two synonym parts that reference the same entity
\* with configured values V, every ordered pair (v1, v2) of V x V has a
\* variant in which the first occurrence is replaced by v1 and the second by
\* v2, and no tuple used for a variant leaves a required occurrence without a
\* value.
C3_PerOccurrencePermutation ==
  Returned("getIntents") =>
    \A s \in AllSentences :
      LET cs == sentenceSynonymsOf(s)
          produced == expand(s)
          perms == permutate(synonymsData(cs))
      IN (Len(cs) = 2 /\ cs[1].value = cs[2].value) =>
           /\ \A i, j \in 1..Len(Configured(cs[1].value)) :
                \E k \in 1..Len(produced) :
                  produced[k] = VariantFor(s, <<Configured(cs[1].value)[i],
                                                Configured(cs[1].value)[j]>>)
           /\ \A k \in 1..Len(perms) : \A o \in 1..2 :
                ~cs[o].optional => truthy(permutationAt(perms[k], o - 1))

(***************************************************************************)
(* C4                                                                      *)
(***************************************************************************)
\* C4: every variant produced from a sentence with at least one synonym part
\* renders to a text with no leading and no trailing whitespace.
C4_NoOuterWhiteSpace ==
  Returned("getIntents") =>
    \A s \in AllSentences :
      hasSynonym(s) =>
        \A k \in 1..Len(expand(s)) : NoOuterWhiteSpace(Render(expand(s)[k]))

(***************************************************************************)
(* C5                                                                      *)
(***************************************************************************)
\* C5: a sentence with no synonym parts contributes exactly one sentence, the
\* input sentence itself with its whitespace untouched; an intent made of
\* such sentences only is returned with its data unchanged.
C5_NoSynonymIdentity ==
  Returned("getIntents") =>
    \A n \in DOMAIN intents :
      /\ \A s \in SentencesOf(n) : ~hasSynonym(s) => expand(s) = <<s>>
      /\ (\A s \in SentencesOf(n) : ~hasSynonym(s)) =>
           call.value[n].data = intents[n].data
      /\ \A i \in 1..Len(intents[n].data) :
           (\A j \in 1..i : ~hasSynonym(intents[n].data[j])) =>
             /\ Len(call.value[n].data) >= i
             /\ call.value[n].data[i] = intents[n].data[i]

C5_Witness ==
  /\ Returned("getIntents")
  /\ \E n \in DOMAIN intents :
       /\ intents[n].data[1] = <<Text(sHello), Text(sSpace)>>
       /\ call.value[n].data[1] = <<Text(sHello), Text(sSpace)>>

(***************************************************************************)
(* C6                                                                      *)
(***************************************************************************)
\* C6: a synonym part whose entity has no entry in the synonym table resolves
\* to an empty list without raising: getSynonyms returns the empty sequence,
\* getIntents() returns, a sentence with such a part as required contributes
\* no variant, a sentence with such a part as its only synonym part and
\* optional contributes exactly one variant with the part omitted, and the
\* other sentences contribute what they contribute on their own.
C6_MissingEntity ==
  /\ (call.op = "getSynonyms" /\ Missing(call.arg)) =>
       (call.outcome = "return" /\ call.value = <<>>)
  /\ call.op = "getIntents" =>
       /\ call.outcome = "return"
       /\ \A s \in AllSentences :
            LET cs == sentenceSynonymsOf(s) IN
            /\ (\E o \in 1..Len(cs) : Missing(cs[o].value) /\ ~cs[o].optional)
                 => Len(expand(s)) = 0
            /\ (Len(cs) = 1 /\ Missing(cs[1].value) /\ cs[1].optional)
                 => expand(s) = <<VariantFor(s, << <<>> >>)>>
       /\ \A n \in DOMAIN intents :
            call.value[n].data =
              reduceData(<<>>, SelectSeq(intents[n].data, LAMBDA s :
                ~\E i \in 1..Len(s) :
                   isSynonym(s[i]) /\ Missing(s[i].value) /\ ~s[i].optional))

Carries(outPart, inPart) ==
  /\ outPart.type = "text"
  /\ IF isSynonym(inPart)
       THEN \E i \in 1..Len(Configured(inPart.value)) :
              outPart.value = Configured(inPart.value)[i]
       ELSE outPart.value \in {inPart.value, trimLeft(inPart.value),
                               trimRight(inPart.value),
                               trimRight(trimLeft(inPart.value))}

\* The parts of out are, in order, what some of the parts of in became.
RECURSIVE InPlace(_, _)
InPlace(out, in) ==
  IF out = <<>> THEN TRUE
  ELSE IF in = <<>> THEN FALSE
  ELSE \/ Carries(out[1], in[1]) /\ InPlace(Tail(out), Tail(in))
       \/ InPlace(out, Tail(in))

\* C9: every part of every sentence getIntents() returns is a text part, and
\* every variant of a sentence is that sentence with each synonym part
\* replaced in place by a text part carrying a value of its own domain or
\* dropped, the remaining parts in their input order.
C9_TextOnlyInPlace ==
  Returned("getIntents") =>
    \A n \in DOMAIN intents :
      /\ \A k \in 1..Len(call.value[n].data) :
           /\ \A j \in 1..Len(call.value[n].data[k]) :
                call.value[n].data[k][j].type = "text"
           /\ \E s \in SentencesOf(n) : InPlace(call.value[n].data[k], s)
      /\ \A s \in SentencesOf(n) : \A k \in 1..Len(expand(s)) :
           InPlace(expand(s)[k], s)

(***************************************************************************)
(* C10                                                                     *)
(***************************************************************************)
\* C10: the output data of an intent is the concatenation, in sentence order,
\* of the variants of each sentence in odometer order over the domains of its
\* synonym parts taken in order of appearance (first part slowest, last part
\* fastest, each domain in its own order).
C10_OdometerOrder ==
  Returned("getIntents") =>
    \A n \in DOMAIN intents :
      call.value[n].data = ExpectedData(intents[n].data)

====
